---- MODULE Spec2Model ----
(***************************************************************************)
(* Model of the SilentBondVisualizer sketch (src/unnamed/part_000), in its *)
(* two variants: variant 1 (lines 14-282) and variant 2 (lines 284-669).   *)
(*                                                                         *)
(* Numbers.  The source computes in IEEE doubles; the model computes in    *)
(* fixed point.  Lengths, velocities, sizes and opacities are integers in  *)
(* units of 1/1000 (Unit).  Calmness and the atmosphere are integers in    *)
(* units of 1/CalmScale, where CalmScale = 600 * lcm(1..10), which makes   *)
(* (avg - 200) / 600 exact for every history of 1..10 integer samples.     *)
(* Products are rounded toward zero, the square root to the nearest unit.  *)
(* A double that is NaN is modelled by the flag rNaN of the element.       *)
(* p.millis() is modelled as an integer number of milliseconds.  The       *)
(* model's decimals are exact where the doubles accumulate rounding error, *)
(* so an element can live one frame more or less than in the source.       *)
(* The canvas keeps its size: windowResized is not modelled.               *)
(*                                                                         *)
(* Fields of an element that only display() reads (color, phase, wobble,   *)
(* dissolved) are left out; id and steps are history fields that no        *)
(* operation reads.                                                        *)
(***************************************************************************)
EXTENDS Integers, Sequences, FiniteSets, TLC

VARIABLES
    variant,        \* 1 or 2: which of the two components is mounted
    elements,       \* elementsRef.current
    lastClickTime,  \* lastClickTimeRef.current
    intervals,      \* heartRateRef.current.intervals (variant 2)
    atmosphere,     \* atmosphereRef.current (variant 2), in 1/CalmScale
    now,            \* p.millis() at the latest pointer event
    mouseX,         \* p.mouseX at the latest pointer event
    mouseY,         \* p.mouseY at the latest pointer event
    graveyard,      \* history: the elements spliced out, as they were then
    pressed,        \* history: the interval of every press outside the save button
    lastFrame,      \* history: the latest frame's elements, in order, and their fate
    nextId,         \* history: number of elements constructed so far
    frames,         \* history: frames drawn, exact up to LatePress + 1 and
                    \* from there on only whether their number is odd or even
    presses         \* history: pointer events handled

vars == <<variant, elements, lastClickTime, intervals, atmosphere, now, mouseX,
          mouseY, graveyard, pressed, lastFrame, nextId, frames, presses>>

-----------------------------------------------------------------------------
(* Bounds of the model *)

\* canvas size in px (p.width, p.height); no resize happens in the model
Width == 400
Height == 300
\* main environment: pointer events handled; they arrive before the first
\* frame or after LatePress frames
MaxPresses == 2
LatePress == 30
\* input environment: pointer events handled
MaxInputPresses == 3
\* tracker environment: pointer events handled
MaxTrackerPresses == 12
\* how many further update() calls are tried on an element after its removal
MaxFurther == 3

-----------------------------------------------------------------------------
(* Arithmetic *)

Unit == 10 * 10 * 10

CalmScale == 600 * 2520

Min2(a, b) == IF a < b THEN a ELSE b

Max2(a, b) == IF a > b THEN a ELSE b

Abs(a) == IF a < 0 THEN -a ELSE a

\* a / b rounded toward zero, b > 0
TDiv(a, b) == IF a >= 0 THEN a \div b ELSE -((-a) \div b)

RECURSIVE SqrtSearch(_, _, _)
SqrtSearch(n, lo, hi) ==
    IF lo >= hi THEN lo
    ELSE LET mid == (lo + hi + 1) \div 2
         IN  IF mid * mid <= n THEN SqrtSearch(n, mid, hi)
             ELSE SqrtSearch(n, lo, mid - 1)

\* square root of n >= 0 rounded to the nearest integer, n <= 10^6 + 10^4
Sqrt(n) ==
    LET s == SqrtSearch(n, 0, 1005)
    IN  IF n - s * s > s THEN s + 1 ELSE s

RECURSIVE SeqSum(_)
SeqSum(s) == IF s = <<>> THEN 0 ELSE Head(s) + SeqSum(Tail(s))

Range(s) == {s[i] : i \in 1..Len(s)}

\* Array.prototype.splice(i, 1) with a 1-based index
Splice(s, i) == [j \in 1..(Len(s) - 1) |-> IF j < i THEN s[j] ELSE s[j + 1]]

\* the last n entries of s
LastN(s, n) == IF Len(s) <= n THEN s ELSE SubSeq(s, Len(s) - n + 1, Len(s))

-----------------------------------------------------------------------------
(* HeartRateTracker (variant 2) *)

maxSamples == 10

AddIntervalDropNewest(hist, interval) ==
    IF Len(hist) + 1 > maxSamples THEN hist ELSE Append(hist, interval)

\* addInterval: push, then shift when longer than maxSamples
AddInterval(hist, interval) ==
    LET pushed == Append(hist, interval)
    IN  IF Len(pushed) > maxSamples THEN Tail(pushed) ELSE pushed

GetCalmnessNoClamp(hist) ==
    IF Len(hist) < 2 THEN CalmScale \div 2
    ELSE (SeqSum(hist) - 200 * Len(hist)) * (2520 \div Len(hist))

\* getCalmness, in 1/CalmScale: (avg - 200) / 600 is
\* (sum - 200 n) * (2520 / n) / CalmScale, exactly, for n in 1..10
GetCalmness(hist) ==
    IF Len(hist) < 2 THEN CalmScale \div 2
    ELSE LET n == Len(hist)
             mapped == (SeqSum(hist) - 200 * n) * (2520 \div n)
         IN  Min2(CalmScale, Max2(0, mapped))

ParticleCountRising(calmness) == (8 * CalmScale + 7 * calmness) \div CalmScale

\* Math.floor(p.lerp(15, 8, calmness)) with lerp(a, b, t) = t * (b - a) + a
ParticleCount(calmness) == (15 * CalmScale - 7 * calmness) \div CalmScale

\* p.map(calmness, 0, 1, 0.08, 0.02), in 1/Unit px per frame
EdgeAttraction(calmness) == 80 - TDiv(60 * calmness, CalmScale)

-----------------------------------------------------------------------------
(* Visual elements.  One record shape serves Ripple and Particle of both   *)
(* variants; a field a class does not have stays 0.                        *)

Blank ==
    [kind |-> "none", id |-> 0, steps |-> 0, x |-> 0, y |-> 0, r |-> 0,
     rNaN |-> FALSE, alpha |-> 0, maxR |-> 0, growth |-> 0, vx |-> 0, vy |-> 0,
     size |-> 0, edge |-> 0, cw |-> 0, ch |-> 0]

\* new Ripple(x, y, speed), variant 1
Ripple1New(id, x, y, speed) ==
    [Blank EXCEPT !.kind = "ripple", !.id = id, !.x = x * Unit, !.y = y * Unit,
                  !.r = 0, !.alpha = 150 * Unit,
                  !.maxR = IF speed = "slow" THEN 500 * Unit ELSE 280 * Unit,
                  !.growth = IF speed = "slow" THEN 800 ELSE 1200]

\* new Ripple(x, y, speed, p), variant 2
Ripple2New(id, x, y, speed) ==
    [Blank EXCEPT !.kind = "ripple", !.id = id, !.x = x * Unit, !.y = y * Unit,
                  !.r = 0, !.alpha = 180 * Unit,
                  !.maxR = IF speed = "slow" THEN 600 * Unit ELSE 320 * Unit,
                  !.growth = IF speed = "slow" THEN 1200 ELSE 1500]

\* Ripple.update, variant 1
Ripple1Update(e) ==
    [e EXCEPT !.r = e.r + e.growth, !.alpha = e.alpha - 300,
              !.steps = e.steps + 1]

\* progress = r / maxR in millionths (meaningless when r is NaN)
Progress(e) == TDiv(e.r * 1000, e.maxR \div Unit)

Ripple2UpdateShrinking(e) ==
    LET progress == Progress(e)
        deceleration == Sqrt(Abs(1000000 - progress))
    IN  [e EXCEPT !.r = e.r - TDiv(e.growth * deceleration, 1000),
                  !.alpha = IF progress > 700000
                            THEN e.alpha - TDiv(8 * (progress - 700000), 3000)
                            ELSE e.alpha,
                  !.steps = e.steps + 1]

\* Ripple.update, variant 2.  Math.pow(1 - progress, 0.5) is NaN when
\* 1 - progress < 0 or progress is NaN; NaN > 0.7 is false.
Ripple2Update(e) ==
    IF e.rNaN THEN [e EXCEPT !.steps = e.steps + 1]
    ELSE LET progress == Progress(e)
             decelNaN == 1000000 - progress < 0
             deceleration == IF decelNaN THEN 0 ELSE Sqrt(1000000 - progress)
         IN  [e EXCEPT !.r = IF decelNaN THEN 0
                             ELSE e.r + TDiv(e.growth * deceleration, 1000),
                       !.rNaN = decelNaN,
                       !.alpha = IF progress > 700000
                                 THEN e.alpha - TDiv(8 * (progress - 700000), 3000)
                                 ELSE e.alpha,
                       !.steps = e.steps + 1]

RippleIsDeadBoth(e) == e.alpha <= 0 /\ (~e.rNaN /\ e.r > e.maxR)

\* Ripple.isDead, both variants; NaN > maxR is false
RippleIsDead(e) == e.alpha <= 0 \/ (~e.rNaN /\ e.r > e.maxR)

\* new Particle(p, x, y), variant 1: rnd holds what p.random returned
Particle1New(id, x, y, rnd) ==
    [Blank EXCEPT !.kind = "particle", !.id = id, !.x = x * Unit, !.y = y * Unit,
                  !.vx = rnd.cos * rnd.speed1, !.vy = rnd.sin * rnd.speed1,
                  !.alpha = 180 * Unit, !.size = rnd.size]

\* new Particle(p, x, y, calmness), variant 2
Particle2New(id, x, y, calmness, rnd) ==
    [Blank EXCEPT !.kind = "particle", !.id = id, !.x = x * Unit, !.y = y * Unit,
                  !.cw = Width * Unit, !.ch = Height * Unit,
                  !.vx = rnd.cos * rnd.speed2, !.vy = rnd.sin * rnd.speed2,
                  !.alpha = 200 * Unit, !.size = rnd.size,
                  !.edge = EdgeAttraction(calmness)]

\* Particle.update, variant 1
Particle1Update(e) ==
    [e EXCEPT !.x = e.x + e.vx, !.y = e.y + e.vy, !.vy = e.vy + 15,
              !.alpha = e.alpha - 600, !.size = TDiv(e.size * 997, 1000),
              !.steps = e.steps + 1]

\* Math.min(distToLeft, distToRight, distToTop, distToBottom)
EdgeDist(e) == Min2(Min2(e.x, e.cw - e.x), Min2(e.y, e.ch - e.y))

Particle2UpdateSwappedFade(e) ==
    LET distToLeft == e.x
        distToRight == e.cw - e.x
        distToTop == e.y
        distToBottom == e.ch - e.y
        minHorizontal == Min2(distToLeft, distToRight)
        minVertical == Min2(distToTop, distToBottom)
        vx1 == IF minHorizontal < minVertical
               THEN (IF distToLeft < distToRight THEN e.vx - e.edge ELSE e.vx + e.edge)
               ELSE e.vx
        vy1 == IF minHorizontal < minVertical
               THEN e.vy
               ELSE (IF distToTop < distToBottom THEN e.vy - e.edge ELSE e.vy + e.edge)
        edgeFade == IF EdgeDist(e) < 100 * Unit THEN 500 ELSE 1500
    IN  [e EXCEPT !.x = e.x + vx1, !.y = e.y + vy1,
                  !.vx = TDiv(vx1 * 995, 1000), !.vy = TDiv(vy1 * 995, 1000),
                  !.alpha = e.alpha - edgeFade,
                  !.size = TDiv(e.size * 998, 1000),
                  !.steps = e.steps + 1]

\* Particle.update, variant 2
Particle2Update(e) ==
    LET distToLeft == e.x
        distToRight == e.cw - e.x
        distToTop == e.y
        distToBottom == e.ch - e.y
        minHorizontal == Min2(distToLeft, distToRight)
        minVertical == Min2(distToTop, distToBottom)
        vx1 == IF minHorizontal < minVertical
               THEN (IF distToLeft < distToRight THEN e.vx - e.edge ELSE e.vx + e.edge)
               ELSE e.vx
        vy1 == IF minHorizontal < minVertical
               THEN e.vy
               ELSE (IF distToTop < distToBottom THEN e.vy - e.edge ELSE e.vy + e.edge)
        edgeFade == IF EdgeDist(e) < 100 * Unit THEN 1500 ELSE 500
    IN  [e EXCEPT !.x = e.x + vx1, !.y = e.y + vy1,
                  !.vx = TDiv(vx1 * 995, 1000), !.vy = TDiv(vy1 * 995, 1000),
                  !.alpha = e.alpha - edgeFade,
                  !.size = TDiv(e.size * 998, 1000),
                  !.steps = e.steps + 1]

\* Particle.isDead, variant 1
Particle1IsDead(e) == e.alpha <= 0

\* Particle.isDead, variant 2
Particle2IsDead(e) ==
    \/ e.alpha <= 0
    \/ e.x < -20 * Unit \/ e.x > e.cw + 20 * Unit
    \/ e.y < -20 * Unit \/ e.y > e.ch + 20 * Unit

\* element.update() of the VisualElement interface, as variant v dispatches it
Update(v, e) ==
    IF e.kind = "ripple"
    THEN (IF v = 1 THEN Ripple1Update(e) ELSE Ripple2Update(e))
    ELSE (IF v = 1 THEN Particle1Update(e) ELSE Particle2Update(e))

\* element.isDead() of the VisualElement interface
IsDead(v, e) ==
    IF e.kind = "ripple" THEN RippleIsDead(e)
    ELSE (IF v = 1 THEN Particle1IsDead(e) ELSE Particle2IsDead(e))

-----------------------------------------------------------------------------
(* What p.random returns.  The i-th particle of a burst that follows the   *)
(* stream seed draws an axis-aligned angle, a speed at either end of its   *)
(* range and a size at either end of [2, 5).                               *)

Directions == << <<1, 0>>, <<0, 1>>, <<-1, 0>>, <<0, -1>> >>

Rnd(seed, i) ==
    LET d == Directions[((i + seed) % 4) + 1]
        fast == ((i \div 2) + seed) % 2 = 0
        big == ((i \div 4) + seed) % 2 = 1
    IN  [cos |-> d[1], sin |-> d[2],
         speed1 |-> IF fast THEN 1499 ELSE 300,
         speed2 |-> IF fast THEN 1999 ELSE 500,
         size |-> IF big THEN 4999 ELSE 2000]

-----------------------------------------------------------------------------
(* The sketch *)

Init ==
    /\ variant \in {1, 2}
    /\ elements = <<>>
    /\ lastClickTime = 0
    /\ intervals = <<>>
    /\ atmosphere = CalmScale \div 2
    /\ now = 0
    /\ mouseX = 0
    /\ mouseY = 0
    /\ graveyard = <<>>
    /\ pressed = <<>>
    /\ lastFrame = <<>>
    /\ nextId = 0
    /\ frames = 0
    /\ presses = 0

InHotZoneSwapped(mx, my) == mx > Width - 80 /\ my > Height - 180

\* the save button area: p.mouseX > p.width - 180 && p.mouseY > p.height - 80
InHotZone(mx, my) == mx > Width - 180 /\ my > Height - 80

ClassifyInclusive(interval) ==
    IF interval >= 600 THEN "slow"
    ELSE IF interval >= 300 THEN "medium"
    ELSE "fast"

\* the if / else if / else of mousePressed
Classify(interval) ==
    IF interval > 600 THEN "slow"
    ELSE IF interval > 300 THEN "medium"
    ELSE "fast"

\* if (interval < 2000) heartRateRef.current.addInterval(interval)
Tracks(interval) == interval < 2000

\* the elements one press pushes, variant 1
Spawn1(interval, mx, my, seed) ==
    IF Classify(interval) = "fast"
    THEN [i \in 1..10 |-> Particle1New(nextId + i, mx, my, Rnd(seed, i - 1))]
    ELSE << Ripple1New(nextId + 1, mx, my, Classify(interval)) >>

\* the elements one press pushes, variant 2
Spawn2(interval, calmness, mx, my, seed) ==
    IF Classify(interval) = "fast"
    THEN [i \in 1..ParticleCount(calmness) |->
              Particle2New(nextId + i, mx, my, calmness, Rnd(seed, i - 1))]
    ELSE << Ripple2New(nextId + 1, mx, my, Classify(interval)) >>

\* p.mousePressed, variant 1, delta ms after the previous pointer event
MousePressed1(delta, mx, my, seed) ==
    /\ variant = 1
    /\ now' = now + delta
    /\ mouseX' = mx
    /\ mouseY' = my
    /\ presses' = presses + 1
    /\ IF InHotZone(mx, my)
       THEN UNCHANGED <<lastClickTime, elements, nextId, pressed>>
       ELSE LET currentTime == now + delta
                interval == currentTime - lastClickTime
                new == Spawn1(interval, mx, my, seed)
            IN  /\ lastClickTime' = currentTime
                /\ elements' = elements \o new
                /\ nextId' = nextId + Len(new)
                /\ pressed' = Append(pressed, interval)
    /\ UNCHANGED <<variant, intervals, atmosphere, graveyard, lastFrame, frames>>

\* p.mousePressed, variant 2
MousePressed2(delta, mx, my, seed) ==
    /\ variant = 2
    /\ now' = now + delta
    /\ mouseX' = mx
    /\ mouseY' = my
    /\ presses' = presses + 1
    /\ IF InHotZone(mx, my)
       THEN UNCHANGED <<lastClickTime, intervals, pressed, elements, nextId>>
       ELSE LET currentTime == now + delta
                interval == currentTime - lastClickTime
                hist == IF Tracks(interval)
                        THEN AddInterval(intervals, interval) ELSE intervals
                calmness == GetCalmness(hist)
                new == Spawn2(interval, calmness, mx, my, seed)
            IN  /\ lastClickTime' = currentTime
                /\ intervals' = hist
                /\ pressed' = Append(pressed, interval)
                /\ elements' = elements \o new
                /\ nextId' = nextId + Len(new)
    /\ UNCHANGED <<variant, atmosphere, graveyard, lastFrame, frames>>

\* p.mousePressed of the mounted variant
MousePressed(delta, mx, my, seed) ==
    \/ MousePressed1(delta, mx, my, seed)
    \/ MousePressed2(delta, mx, my, seed)

\* touchStarted: calls p.mousePressed() and returns false
TouchStarted(delta, mx, my, seed) == MousePressed(delta, mx, my, seed)

RECURSIVE CullForward(_, _, _)
CullForward(v, st, i) ==
    IF i > Len(st.els) THEN st
    ELSE LET stepped == [st.els EXCEPT ![i] = Update(v, st.els[i])]
         IN  IF IsDead(v, stepped[i])
             THEN CullForward(v, [els |-> Splice(stepped, i),
                                  removed |-> Append(st.removed, stepped[i])], i + 1)
             ELSE CullForward(v, [els |-> stepped, removed |-> st.removed], i + 1)

\* the element loop of p.draw from index i (1-based) down to the first:
\* update, display, and splice when dead.  removed lists the elements
\* spliced out, in the order the loop met them.
RECURSIVE CullFrom(_, _, _)
CullFrom(v, st, i) ==
    IF i < 1 THEN st
    ELSE LET stepped == [st.els EXCEPT ![i] = Update(v, st.els[i])]
         IN  IF IsDead(v, stepped[i])
             THEN CullFrom(v, [els |-> Splice(stepped, i),
                               removed |-> Append(st.removed, stepped[i])], i - 1)
             ELSE CullFrom(v, [els |-> stepped, removed |-> st.removed], i - 1)

CullPassForward(v, els) == CullForward(v, [els |-> els, removed |-> <<>>], 1)

\* for (let i = elementsRef.current.length - 1; i >= 0; i--) { ... }
CullPass(v, els) == CullFrom(v, [els |-> els, removed |-> <<>>], Len(els))

\* which of the elements a frame started with were spliced out during it
Fate(els, removed) ==
    [i \in 1..Len(els) |->
        [id |-> els[i].id,
         culled |-> \E k \in 1..Len(removed) : removed[k].id = els[i].id]]

SmoothOvershoot(atm, target) == atm + (target - atm) * 2

\* atmosphereRef.current += (targetAtmosphere - atmosphereRef.current) * 0.02
Smooth(atm, target) == atm + TDiv(target - atm, 50)

\* p.draw, variant 1
Draw1 ==
    /\ variant = 1
    /\ LET pass == CullPass(1, elements)
       IN  /\ elements' = pass.els
           /\ graveyard' = graveyard \o pass.removed
           /\ lastFrame' = Fate(elements, pass.removed)
    /\ UNCHANGED <<variant, lastClickTime, intervals, atmosphere, now, mouseX,
                   mouseY, pressed, nextId, presses>>

\* p.draw, variant 2
Draw2 ==
    /\ variant = 2
    /\ atmosphere' = Smooth(atmosphere, GetCalmness(intervals))
    /\ LET pass == CullPass(2, elements)
       IN  /\ elements' = pass.els
           /\ graveyard' = graveyard \o pass.removed
           /\ lastFrame' = Fate(elements, pass.removed)
    /\ UNCHANGED <<variant, lastClickTime, intervals, now, mouseX, mouseY,
                   pressed, nextId, presses>>

\* p.draw of the mounted variant
Draw == Draw1 \/ Draw2

-----------------------------------------------------------------------------
(* Environments.  Each drives the sketch with pointer events and frames    *)
(* within its bounds.                                                      *)

Center == <<Width \div 2, Height \div 2>>

\* exactly 100 px below the top edge
Spot == <<Width \div 2, 100>>

SaveButton == <<Width - 100, Height - 10>>

\* left of the save button: x is not beyond width - 180
BesideButton == <<Width - 180, Height - 10>>

MainDeltas == {100, 600, 1999}

MainPositions == {Spot}

MainMouse ==
    /\ presses < MaxPresses
    /\ frames \in {0, LatePress}
    /\ \E d \in MainDeltas, pos \in MainPositions :
           MousePressed(d, pos[1], pos[2], presses)

MainTouch ==
    /\ presses < MaxPresses
    /\ frames \in {0, LatePress}
    /\ \E d \in MainDeltas, pos \in MainPositions :
           TouchStarted(d, pos[1], pos[2], presses)

\* p5's frameCount after one more frame, as far as frames records it
FrameCount(f) ==
    IF f <= LatePress THEN f + 1 ELSE LatePress + 1 + ((f - LatePress) % 2)

\* the browser delivers the next animation frame
Frame == frames' = FrameCount(frames)

\* p5 counts the frame and calls p.draw
MainDraw ==
    /\ Draw
    /\ Frame

Next == MainMouse \/ MainTouch \/ MainDraw

Spec == Init /\ [][Next]_vars

\* the same sketch on a page that stays visible: p5 requests an animation
\* frame after every frame and p.draw has no guard, so frames keep being
\* drawn.  Only MainDraw changes frames, and it does so in every state; the
\* fairness of the frame clock is therefore the fairness of MainDraw.
\* Pointer events are the user's and nothing obliges them to happen.
SpecLive == Init /\ [][Next]_vars /\ WF_frames(Frame)

InputDeltas == {100, 300, 600, 1999}

InputPositions == {Center, SaveButton, BesideButton}

InputMouse ==
    /\ presses < MaxInputPresses
    /\ \E d \in InputDeltas, pos \in InputPositions :
           MousePressed(d, pos[1], pos[2], 0)

InputTouch ==
    /\ presses < MaxInputPresses
    /\ \E d \in InputDeltas, pos \in InputPositions :
           TouchStarted(d, pos[1], pos[2], 0)

NextInput == InputMouse \/ InputTouch

\* pointer events only, no frame in between
SpecInput == Init /\ [][NextInput]_vars

\* the k-th press comes 700 + k ms after the one before it, or 2000 ms after
TrackerDeltas == {700 + presses, 2000}

TrackerMouse ==
    /\ presses < MaxTrackerPresses
    /\ \E d \in TrackerDeltas : MousePressed(d, Center[1], Center[2], 0)

TrackerTouch ==
    /\ presses < MaxTrackerPresses
    /\ \E d \in TrackerDeltas : TouchStarted(d, Center[1], Center[2], 0)

NextTracker == TrackerMouse \/ TrackerTouch

InitTracker == Init /\ variant = 2

\* variant 2 under a long run of presses
SpecTracker == InitTracker /\ [][NextTracker]_vars

-----------------------------------------------------------------------------
(* Vocabulary of the properties *)

\* the step handles a pointer event
PressStep == presses' = presses + 1

\* the step that is not a pointer event draws a frame
FrameStep == presses' = presses

\* the pointer event of the step lies in the save button area
OnSaveButton == mouseX' > Width - 180 /\ mouseY' > Height - 80

\* what the step appended to the collection
Added == SubSeq(elements', Len(elements) + 1, Len(elements'))

\* the step kept the elements it found, in place
KeptInPlace ==
    /\ Len(elements') >= Len(elements)
    /\ SubSeq(elements', 1, Len(elements)) = elements

IsFreshAt(e) ==
    /\ e.x = mouseX' * Unit /\ e.y = mouseY' * Unit
    /\ e.steps = 0

IsSlowRipple(e) ==
    /\ e.kind = "ripple" /\ e.r = 0
    /\ e.maxR = (IF variant = 1 THEN 500 ELSE 600) * Unit
    /\ e.growth = (IF variant = 1 THEN 800 ELSE 1200)

IsMediumRipple(e) ==
    /\ e.kind = "ripple" /\ e.r = 0
    /\ e.maxR = (IF variant = 1 THEN 280 ELSE 320) * Unit
    /\ e.growth = (IF variant = 1 THEN 1200 ELSE 1500)

Filter(s, Test(_)) == SelectSeq(s, Test)

Below2000(v) == v < 2000

-----------------------------------------------------------------------------
(* C1 *)

\* C1: a press outside the save button area, interval = now - lastPressTime,
\* appends exactly one slow Ripple when interval > 600, exactly one medium
\* Ripple when 300 < interval <= 600, and only Particles (exactly 10 in
\* variant 1) when interval <= 300; lastPressTime becomes now and the elements
\* already in the collection are kept in place.
C1_Classification ==
    [][(PressStep /\ ~OnSaveButton) =>
          LET interval == now' - lastClickTime
          IN  /\ lastClickTime' = now'
              /\ KeptInPlace
              /\ \A i \in 1..Len(Added) : IsFreshAt(Added[i])
              /\ interval > 600 =>
                    Len(Added) = 1 /\ IsSlowRipple(Added[1])
              /\ (300 < interval /\ interval <= 600) =>
                    Len(Added) = 1 /\ IsMediumRipple(Added[1])
              /\ interval <= 300 =>
                    /\ Len(Added) >= 1
                    /\ \A i \in 1..Len(Added) : Added[i].kind = "particle"
                    /\ variant = 1 => Len(Added) = 10]_vars

\* three presses have left a slow Ripple, a medium Ripple and Particles, the
\* last of them beside the save button, at x = width - 180
C1_Witness ==
    /\ lastClickTime = now
    /\ mouseX = Width - 180 /\ mouseY > Height - 80
    /\ \E i, j, k \in 1..Len(elements) :
          /\ IsSlowRipple(elements[i])
          /\ IsMediumRipple(elements[j])
          /\ elements[k].kind = "particle"

-----------------------------------------------------------------------------
(* C5 *)

\* C5: getCalmness() is 0.5 with fewer than 2 stored samples; otherwise it is
\* the mean of the stored samples mapped linearly from [200, 800] to [0, 1]
\* and clamped: 0 for a mean <= 200, 1 for a mean >= 800, always in [0, 1].
C5_Calmness ==
    LET n == Len(intervals)
        sum == SeqSum(intervals)
        c == GetCalmness(intervals)
    IN  /\ n < 2 => 2 * c = CalmScale
        /\ n >= 2 =>
              /\ 0 <= c /\ c <= CalmScale
              /\ sum <= 200 * n => c = 0
              /\ sum >= 800 * n => c = CalmScale
              /\ (200 * n < sum /\ sum < 800 * n) =>
                    c * n = (sum - 200 * n) * (CalmScale \div 600)

\* three samples whose mean lies below 200 ms
C5_Witness ==
    /\ Len(intervals) = 3
    /\ SeqSum(intervals) < 200 * 3
    /\ GetCalmness(intervals) = 0

-----------------------------------------------------------------------------
(* C6 *)

\* C6: in variant 2 the Tracker's history is the most recent (at most 10)
\* intervals below 2000 ms of the presses outside the save button area, in
\* arrival order; a press with interval >= 2000 leaves it unchanged and still
\* sets lastPressTime.
C6_History ==
    /\ [](variant = 2 =>
            /\ Len(intervals) <= 10
            /\ intervals = LastN(Filter(pressed, Below2000), 10))
    /\ [][(PressStep /\ ~OnSaveButton /\ now' - lastClickTime >= 2000) =>
             /\ intervals' = intervals
             /\ lastClickTime' = now']_vars

\* more than 10 samples have arrived, so the oldest are gone, and a press of
\* 2000 ms or more lies among them
C6_Witness ==
    /\ variant = 2
    /\ Len(Filter(pressed, Below2000)) > 10
    /\ Len(pressed) > Len(Filter(pressed, Below2000))
    /\ Len(intervals) = 10
    /\ intervals[1] # pressed[1]

-----------------------------------------------------------------------------
(* C10 *)

\* C10: a press inside the save button area changes neither lastPressTime nor
\* the Tracker's history nor the collection, so the next press outside it
\* measures its interval from the last press outside it.
C10_HotZone ==
    /\ [][(PressStep /\ OnSaveButton) =>
             UNCHANGED <<lastClickTime, intervals, elements>>]_vars
    /\ [][(PressStep /\ ~OnSaveButton) =>
             /\ Len(pressed') = Len(pressed) + 1
             /\ pressed'[Len(pressed')] = now' - lastClickTime
             /\ lastClickTime' = now']_vars

\* a press outside, then one on the save button, then one outside: the last
\* interval spans both gaps
C10_Witness ==
    /\ presses = 3
    /\ Len(pressed) = 2
    /\ lastClickTime = now
    /\ pressed[2] = 100 + 100

-----------------------------------------------------------------------------
(* C2 *)

\* the step is a press of variant 2 outside the save button area with
\* interval <= 300
FastPress2 ==
    /\ PressStep /\ ~OnSaveButton
    /\ variant = 2
    /\ now' - lastClickTime <= 300

\* n = floor(15 - 7 c) for a scalar c in 1/CalmScale
IsFloorOfLerp(n, c) ==
    /\ n * CalmScale <= 15 * CalmScale - 7 * c
    /\ 15 * CalmScale - 7 * c < (n + 1) * CalmScale

CalmGrid == {k * (CalmScale \div 24) : k \in 0..24}

\* C2 as stated: on a fast press of variant 2 the number of Particles is an
\* integer in 8..15 scaled linearly from the smoothed atmosphere scalar.
C2_CountFromAtmosphere ==
    [][FastPress2 =>
          /\ Len(Added) \in 8..15
          /\ IsFloorOfLerp(Len(Added), atmosphere)]_vars

\* C2, amended: on a fast press of variant 2 the number of Particles is
\* floor(lerp(15, 8, c)), an integer in 8..15, where c is the Tracker's
\* getCalmness() right after this press's interval was added (not the
\* smoothed atmosphere scalar); a higher c never yields more Particles.
C2_CountFromCalmness ==
    [][FastPress2 =>
          LET c == GetCalmness(intervals')
              n == Len(Added)
          IN  /\ n \in 8..15
              /\ intervals'[Len(intervals')] = now' - lastClickTime
              /\ IsFloorOfLerp(n, c)
              /\ \A g \in CalmGrid :
                    /\ g >= c => ParticleCount(g) <= n
                    /\ g <= c => ParticleCount(g) >= n]_vars

\* after some frames a fast press at calmness 1 has just added 8 Particles,
\* while the atmosphere is still below 1
C2_Witness ==
    /\ variant = 2
    /\ frames > 0
    /\ GetCalmness(intervals) = CalmScale
    /\ atmosphere < CalmScale
    /\ Cardinality({i \in 1..Len(elements) :
           elements[i].kind = "particle" /\ elements[i].steps = 0}) = 8

-----------------------------------------------------------------------------
(* C3 *)

AliveNow(e) == ~IsDead(variant, e)

DeadNow(e) == IsDead(variant, e)

\* every element of the collection after one update()
AllStepped == [i \in 1..Len(elements) |-> Update(variant, elements[i])]

\* what the step appended to the graveyard
Buried == SubSeq(graveyard', Len(graveyard) + 1, Len(graveyard'))

\* C3: one frame steps every element present at its start exactly once,
\* removes exactly those that are dead after their step and leaves the
\* survivors in their original order.
C3_CullPass ==
    [][FrameStep =>
          /\ elements' = Filter(AllStepped, AliveNow)
          /\ Len(Buried) = Len(Filter(AllStepped, DeadNow))
          /\ Range(Buried) = Range(Filter(AllStepped, DeadNow))
          /\ \A i \in 1..Len(elements) :
                LET same == {f \in Range(elements') \cup Range(Buried) :
                                f.id = elements[i].id}
                IN  /\ Cardinality(same) = 1
                    /\ \A f \in same : f.steps = elements[i].steps + 1]_vars

\* the latest frame started with [.., A, .., B, .., C, ..], removed A and C
\* and kept B; the collection now holds exactly the elements it kept
C3_Witness ==
    /\ \E i, j, k \in 1..Len(lastFrame) :
          /\ i < j /\ j < k
          /\ lastFrame[i].culled /\ ~lastFrame[j].culled /\ lastFrame[k].culled
    /\ Len(elements) =
          Cardinality({i \in 1..Len(lastFrame) : ~lastFrame[i].culled})
    /\ \A i \in 1..Len(elements) :
          \E j \in 1..Len(lastFrame) :
              lastFrame[j].id = elements[i].id /\ ~lastFrame[j].culled

-----------------------------------------------------------------------------
(* C4 *)

RECURSIVE UpdateN(_, _, _)
UpdateN(v, e, n) == IF n = 0 THEN e ELSE UpdateN(v, Update(v, e), n - 1)

\* C4: an element whose isDead() returned true is removed in that frame, is
\* not in the collection afterwards, and its isDead() stays true under any
\* further update().
C4_DeadForGood ==
    /\ \A i \in 1..Len(elements) : ~IsDead(variant, elements[i])
    /\ \A k \in 1..Len(graveyard) :
          /\ IsDead(variant, graveyard[k])
          /\ \A i \in 1..Len(elements) : elements[i].id # graveyard[k].id
          /\ \A n \in 1..MaxFurther :
                IsDead(variant, UpdateN(variant, graveyard[k], n))

-----------------------------------------------------------------------------
(* C7 *)

\* C7: the atmosphere starts at 0.5 and stays in [0, 1]; a frame of variant 2
\* replaces it by atmosphere + 0.02 * (calmness - atmosphere), which never
\* moves it away from the Tracker's value nor past it; a press leaves it alone.
C7_Atmosphere ==
    /\ 2 * atmosphere = CalmScale
    /\ [](0 <= atmosphere /\ atmosphere <= CalmScale)
    /\ [][PressStep => atmosphere' = atmosphere]_vars
    /\ [][(FrameStep /\ variant = 2) =>
             LET c == GetCalmness(intervals)
             IN  /\ Abs(50 * (atmosphere' - atmosphere) - (c - atmosphere)) < 50
                 /\ Abs(c - atmosphere') <= Abs(c - atmosphere)
                 /\ atmosphere <= c =>
                       atmosphere <= atmosphere' /\ atmosphere' <= c
                 /\ atmosphere >= c =>
                       atmosphere >= atmosphere' /\ atmosphere' >= c]_vars

\* frames have moved the atmosphere from 0.5 part of the way to a calmness of 0
C7_Witness ==
    /\ variant = 2
    /\ GetCalmness(intervals) = 0
    /\ 0 < atmosphere
    /\ 4 * atmosphere < CalmScale

-----------------------------------------------------------------------------
(* C8 *)

\* the element e as the step leaves it, in the collection or just removed
After(e) == {f \in Range(elements') \cup Range(Buried) : f.id = e.id}

\* C8: no step of a Ripple in the collection lowers its radius (which stays a
\* number) or raises its opacity, in either variant.
C8_RippleMonotone ==
    [][\A i \in 1..Len(elements) :
          elements[i].kind = "ripple" =>
             \A f \in After(elements[i]) :
                /\ ~f.rNaN
                /\ f.r >= elements[i].r
                /\ f.alpha <= elements[i].alpha]_vars

\* a Ripple of variant 2 within 0.1 % of maxRadius, dissolving, still stepped
C8_Witness ==
    /\ variant = 2
    /\ \E i \in 1..Len(elements) :
          /\ elements[i].kind = "ripple"
          /\ Progress(elements[i]) >= 999000
          /\ elements[i].alpha < 180 * Unit
          /\ elements[i].alpha > 0

-----------------------------------------------------------------------------
(* C9 *)

WithinEdge(e) ==
    \/ e.x < 100 * Unit \/ Width * Unit - e.x < 100 * Unit
    \/ e.y < 100 * Unit \/ Height * Unit - e.y < 100 * Unit

\* C9: no step of a Particle raises its opacity or its size; a step lowers
\* the opacity by 0.6 in variant 1 and, in variant 2, by 1.5 when the Particle
\* was less than 100 px from an edge before the step and by 0.5 otherwise,
\* and it shrinks the size.
C9_ParticleMonotone ==
    [][\A i \in 1..Len(elements) :
          elements[i].kind = "particle" =>
             \A f \in After(elements[i]) :
                /\ f.alpha <= elements[i].alpha
                /\ f.size <= elements[i].size
                /\ f.steps = elements[i].steps + 1 =>
                      /\ f.size < elements[i].size
                      /\ elements[i].alpha - f.alpha =
                            IF variant = 1 THEN 600
                            ELSE IF WithinEdge(elements[i]) THEN 1500
                            ELSE 500]_vars

\* a Particle of variant 2 that has faded at both rates
C9_Witness ==
    /\ variant = 2
    /\ \E i \in 1..Len(elements) :
          LET e == elements[i]
          IN  /\ e.kind = "particle"
              /\ e.steps >= 2
              /\ 200 * Unit - e.alpha > 500 * e.steps
              /\ 200 * Unit - e.alpha < 1500 * e.steps
              /\ e.size < 2000

-----------------------------------------------------------------------------
(* C11 *)

\* the number of frames within which an element of this kind is removed
MaxLife(e) ==
    IF e.kind = "ripple"
    THEN (IF variant = 1 THEN 501 ELSE 860)
    ELSE (IF variant = 1 THEN 301 ELSE 400)

\* the Ripple was created with the larger maxRadius of its variant
WasSlow(e) == e.maxR = (IF variant = 1 THEN 500 ELSE 600) * Unit

\* every element in the collection is younger than the lifetime of its kind
Young == \A i \in 1..Len(elements) : elements[i].steps < MaxLife(elements[i])

\* every removed Ripple of variant 2 had passed progress 0.7
PastDissolve ==
    variant = 2 =>
       \A k \in 1..Len(graveyard) :
          graveyard[k].kind = "ripple" => Progress(graveyard[k]) > 700000

====
